---- MODULE Spec2Model ----
(***************************************************************************)
(* tclMaster: the line-oriented text transformations of TclPreprocessor    *)
(* (inject_line, replace_variable_value, comment_out_block,                *)
(* replace_string_content, backup_file) and the batch drivers              *)
(* (batch_replace, batch_comment_out_block).                               *)
(*                                                                         *)
(* A file on disk is a sequence of characters (one-character strings).     *)
(* _read_lines splits it after every line terminator, _write_lines         *)
(* concatenates the in-memory line sequence.                               *)
(***************************************************************************)
EXTENDS Integers, Sequences, FiniteSets, TLC

VARIABLES
    op,      \* the operation exercised in this behaviour
    args,    \* the arguments of that operation
    disk,    \* contents of the target file <model_path>/<filename>.tcl
    bak,     \* contents of the sibling .tcl.bak file, or NoFile
    hist,    \* the calls made so far, one record per call
    batch,   \* batch driver: the arguments of the batch run
    tree,    \* batch driver: per root, the matched entries and their state
    pc,      \* batch driver: position in the two nested loops
    ri,      \* batch driver: index of current_root
    fi,      \* batch driver: index of file_path in files_found
    rootCount,   \* current_root_replacements / current_root_modifications
    total,       \* total_replacements_global / total_modified_lines_global
    log          \* the per-file outcomes reported so far, in order

vars == <<op, args, disk, bak, hist,
          batch, tree, pc, ri, fi, rootCount, total, log>>

fileVars == <<op, args, disk, bak, hist>>
batchVars == <<batch, tree, pc, ri, fi, rootCount, total, log>>

----------------------------------------------------------------------------
(* Bounds of the model                                                     *)

MaxLines == 2       \* lines in an initial target file
MaxToks == 2        \* tokens in one initial line
MaxPatLen == 2      \* characters in a regular expression argument
MaxStrLen == 2      \* characters in a literal string argument
MaxCalls == 2       \* transformation calls made on one file
MaxBackups == 2     \* backup_file calls made on one file
BackupMaxLines == 1 \* lines in an initial target file of the backup runs
MaxRoots == 2       \* root directories of a batch run
MaxMatches == 2     \* entries the recursive search finds under one root
BatchMaxLines == 1  \* lines in a file of a batch run
BatchMaxToks == 1   \* tokens in a line of a file of a batch run
BatchStrLen == 1    \* characters in an argument of a batch run

NoFile == <<"<absent>">>

----------------------------------------------------------------------------
(* Strings                                                                 *)

Strs(chars, n) == UNION {[1..k -> chars] : k \in 0..n}

RECURSIVE Flatten(_)
Flatten(ss) == IF ss = <<>> THEN <<>> ELSE Head(ss) \o Flatten(Tail(ss))

\* str.isspace for the characters of the model
IsSpace(c) == c \in {" ", "\t", "\n", "\r", "\f"}

RECURSIVE LStrip(_)
LStrip(s) == IF s # <<>> /\ IsSpace(Head(s)) THEN LStrip(Tail(s)) ELSE s

RECURSIVE RStrip(_)
RStrip(s) ==
    IF s # <<>> /\ IsSpace(s[Len(s)]) THEN RStrip(SubSeq(s, 1, Len(s) - 1)) ELSE s

Strip(s) == RStrip(LStrip(s))

\* does s hold the characters of p from position pos on
LitAt(p, s, pos) ==
    /\ pos + Len(p) - 1 <= Len(s)
    /\ \A k \in 1..Len(p) : s[pos + k - 1] = p[k]

StartsWith(s, p) == LitAt(p, s, 1)

EndsWith(s, p) == Len(p) <= Len(s) /\ LitAt(p, s, Len(s) - Len(p) + 1)

----------------------------------------------------------------------------
(* File I/O helpers                                                        *)

\* open(file_path, 'r').readlines(): universal newlines, terminators kept
RECURSIVE ReadLinesFrom(_, _, _)
ReadLinesFrom(bytes, i, cur) ==
    IF i > Len(bytes) THEN (IF cur = <<>> THEN <<>> ELSE <<cur>>)
    ELSE IF bytes[i] = "\n"
        THEN <<Append(cur, "\n")>> \o ReadLinesFrom(bytes, i + 1, <<>>)
    ELSE IF bytes[i] = "\r"
        THEN <<Append(cur, "\n")>> \o
             ReadLinesFrom(bytes,
                 IF i < Len(bytes) /\ bytes[i + 1] = "\n" THEN i + 2 ELSE i + 1,
                 <<>>)
    ELSE ReadLinesFrom(bytes, i + 1, Append(cur, bytes[i]))

ReadLines(bytes) == ReadLinesFrom(bytes, 1, <<>>)

\* open(file_path, 'w').writelines(lines): the elements written one after another
WriteLines(lines) == Flatten(lines)

----------------------------------------------------------------------------
(* Regular expressions of the model: literal characters, '.', '^' and '$'  *)

RECURSIVE MatchHere(_, _, _, _)
MatchHere(pat, i, line, pos) ==
    IF i > Len(pat) THEN TRUE
    ELSE IF pat[i] = "^" THEN pos = 1 /\ MatchHere(pat, i + 1, line, pos)
    ELSE IF pat[i] = "$"
        THEN /\ \/ pos = Len(line) + 1
                \/ pos = Len(line) /\ line[pos] = "\n"
             /\ MatchHere(pat, i + 1, line, pos)
    ELSE IF pat[i] = "."
        THEN /\ pos <= Len(line)
             /\ line[pos] # "\n"
             /\ MatchHere(pat, i + 1, line, pos + 1)
    ELSE /\ pos <= Len(line)
         /\ line[pos] = pat[i]
         /\ MatchHere(pat, i + 1, line, pos + 1)

\* re.compile(pattern).search(line)
Search(pat, line) == \E pos \in 1..(Len(line) + 1) : MatchHere(pat, 1, line, pos)

----------------------------------------------------------------------------
(* inject_line                                                             *)

Result(r, lines, w, out) == [ret |-> r, mem |-> lines, wrote |-> w, disk |-> out]

RetBool(b) == [tag |-> "bool", b |-> b, n |-> 0]
RetInt(n) == [tag |-> "int", b |-> FALSE, n |-> n]
Raised == [tag |-> "raise", b |-> FALSE, n |-> 0]
RetNone == [tag |-> "none", b |-> FALSE, n |-> 0]

\* the for loop of inject_line from line i on: new_lines and injected
RECURSIVE InjectLoop(_, _, _, _, _)
InjectLoop(lines, i, content, pattern, injected) ==
    IF i > Len(lines) THEN [new_lines |-> <<>>, injected |-> injected]
    ELSE IF ~injected /\ Search(pattern, lines[i])
        THEN LET rest == InjectLoop(lines, i + 1, content, pattern, TRUE)
             IN [new_lines |-> <<lines[i], content>> \o rest.new_lines,
                 injected |-> rest.injected]
        ELSE LET rest == InjectLoop(lines, i + 1, content, pattern, injected)
             IN [new_lines |-> <<lines[i]>> \o rest.new_lines,
                 injected |-> rest.injected]

inject_line(bytes, content, after_pattern) ==
    LET lines == ReadLines(bytes)
        c == IF EndsWith(content, <<"\n">>) THEN content ELSE Append(content, "\n")
        r == InjectLoop(lines, 1, c, after_pattern, FALSE)
    IN IF r.injected
       THEN Result(RetBool(TRUE), r.new_lines, TRUE, WriteLines(r.new_lines))
       ELSE Result(RetBool(FALSE), r.new_lines, FALSE, bytes)

----------------------------------------------------------------------------
(* replace_variable_value                                                  *)

AllSpace(s, a, b) == \A k \in a..b : IsSpace(s[k])

\* re.compile(rf"^\s*set\s+{re.escape(var_name)}\s+(.*)").match(line):
\* a leading blanks, "set", b >= 1 blanks, var_name taken literally, one more
\* blank at least; (.*) matches whatever is left
VarPatternMatch(var_name, line) ==
    \E a \in 0..Len(line), b \in 1..Len(line) :
        /\ a + 3 + b + Len(var_name) + 1 <= Len(line)
        /\ AllSpace(line, 1, a)
        /\ LitAt(<<"s", "e", "t">>, line, a + 1)
        /\ AllSpace(line, a + 4, a + 3 + b)
        /\ LitAt(var_name, line, a + 4 + b)
        /\ IsSpace(line[a + 4 + b + Len(var_name)])

\* f"set {var_name} {new_value}\n"
SetLine(var_name, new_value) ==
    <<"s", "e", "t", " ">> \o var_name \o <<" ">> \o new_value \o <<"\n">>

RECURSIVE VarLoop(_, _, _, _)
VarLoop(lines, i, var_name, new_value) ==
    IF i > Len(lines) THEN [new_lines |-> <<>>, modified |-> FALSE]
    ELSE LET rest == VarLoop(lines, i + 1, var_name, new_value)
         IN IF VarPatternMatch(var_name, lines[i])
            THEN [new_lines |-> <<SetLine(var_name, new_value)>> \o rest.new_lines,
                  modified |-> TRUE]
            ELSE [new_lines |-> <<lines[i]>> \o rest.new_lines,
                  modified |-> rest.modified]

replace_variable_value(bytes, var_name, new_value) ==
    LET lines == ReadLines(bytes)
        r == VarLoop(lines, 1, var_name, new_value)
    IN IF r.modified
       THEN Result(RetBool(TRUE), r.new_lines, TRUE, WriteLines(r.new_lines))
       ELSE Result(RetBool(FALSE), r.new_lines, FALSE, bytes)

----------------------------------------------------------------------------
(* comment_out_block                                                       *)

\* the already-commented test left out
IsCommented_Never(line) == FALSE

\* line.strip().startswith("#")
IsCommented(line) == StartsWith(Strip(line), <<"#">>)

\* the end test made only for the lines that receive the prefix
RECURSIVE CommentLoop_EndInsideIf(_, _, _, _, _)
CommentLoop_EndInsideIf(lines, i, start_re, end_re, inside_block) ==
    IF i > Len(lines) THEN [new_lines |-> <<>>, modified_count |-> 0]
    ELSE LET line == lines[i]
             inside == inside_block \/ Search(start_re, line)
             commented == StartsWith(Strip(line), <<"#">>)
             rest == CommentLoop_EndInsideIf(lines, i + 1, start_re, end_re,
                         inside /\ (commented \/ ~Search(end_re, line)))
         IN IF inside /\ ~commented
            THEN [new_lines |-> <<<<"#", " ">> \o line>> \o rest.new_lines,
                  modified_count |-> rest.modified_count + 1]
            ELSE [new_lines |-> <<line>> \o rest.new_lines,
                  modified_count |-> rest.modified_count]

\* the for loop of comment_out_block from line i on, entered with inside_block
RECURSIVE CommentLoop(_, _, _, _, _)
CommentLoop(lines, i, start_re, end_re, inside_block) ==
    IF i > Len(lines) THEN [new_lines |-> <<>>, modified_count |-> 0]
    ELSE LET line == lines[i]
             inside == inside_block \/ Search(start_re, line)
         IN IF inside
            THEN LET rest == CommentLoop(lines, i + 1, start_re, end_re,
                                         ~Search(end_re, line))
                 IN IF ~IsCommented(line)
                    THEN [new_lines |-> <<<<"#", " ">> \o line>> \o rest.new_lines,
                          modified_count |-> rest.modified_count + 1]
                    ELSE [new_lines |-> <<line>> \o rest.new_lines,
                          modified_count |-> rest.modified_count]
            ELSE LET rest == CommentLoop(lines, i + 1, start_re, end_re, FALSE)
                 IN [new_lines |-> <<line>> \o rest.new_lines,
                     modified_count |-> rest.modified_count]

comment_out_block(bytes, start_pattern, end_pattern) ==
    LET lines == ReadLines(bytes)
        r == CommentLoop(lines, 1, start_pattern, end_pattern, FALSE)
    IN IF r.modified_count > 0
       THEN Result(RetInt(r.modified_count), r.new_lines, TRUE,
                   WriteLines(r.new_lines))
       ELSE Result(RetInt(0), r.new_lines, FALSE, bytes)

----------------------------------------------------------------------------
(* replace_string_content                                                  *)

AsciiLetters ==
    {"a", "b", "c", "d", "e", "f", "g", "h", "i", "j", "k", "l", "m",
     "n", "o", "p", "q", "r", "s", "t", "u", "v", "w", "x", "y", "z"}

Digits == {"1", "2", "3", "4", "5", "6", "7", "8", "9"}

\* the escapes a replacement template turns into one character
TemplateEscape(c) ==
    CASE c = "n" -> "\n"
      [] c = "t" -> "\t"
      [] c = "r" -> "\r"
      [] c = "f" -> "\f"
      [] c = "\\" -> "\\"

\* re's handling of the repl argument of re.subn: a backslash starts an
\* escape; a letter that is no known escape, a group reference (the escaped
\* pattern has no group) and a backslash at the end are errors; a backslash
\* before any other character stays, with that character
RECURSIVE ExpandTemplate(_, _)
ExpandTemplate(repl, i) ==
    IF i > Len(repl) THEN [ok |-> TRUE, val |-> <<>>]
    ELSE IF repl[i] # "\\"
        THEN LET rest == ExpandTemplate(repl, i + 1)
             IN [ok |-> rest.ok, val |-> <<repl[i]>> \o rest.val]
    ELSE IF i = Len(repl) THEN [ok |-> FALSE, val |-> <<>>]
    ELSE LET c == repl[i + 1]
             rest == ExpandTemplate(repl, i + 2)
         IN IF c \in {"n", "t", "r", "f", "\\"}
            THEN [ok |-> rest.ok, val |-> <<TemplateEscape(c)>> \o rest.val]
            ELSE IF c \in AsciiLetters \cup Digits
            THEN [ok |-> FALSE, val |-> <<>>]
            ELSE [ok |-> rest.ok, val |-> <<"\\", c>> \o rest.val]

\* old_string used as a pattern, re.escape left out: '.' matches any character
DotAt(p, s, pos) ==
    /\ pos + Len(p) - 1 <= Len(s)
    /\ \A k \in 1..Len(p) :
        \/ s[pos + k - 1] = p[k]
        \/ p[k] = "." /\ s[pos + k - 1] # "\n"

RECURSIVE SubnFrom_Unescaped(_, _, _, _)
SubnFrom_Unescaped(old, repl, line, pos) ==
    IF pos > Len(line)
    THEN (IF old = <<>> THEN [s |-> repl, n |-> 1] ELSE [s |-> <<>>, n |-> 0])
    ELSE IF old = <<>>
        THEN LET r == SubnFrom_Unescaped(old, repl, line, pos + 1)
             IN [s |-> repl \o <<line[pos]>> \o r.s, n |-> r.n + 1]
    ELSE IF DotAt(old, line, pos)
        THEN LET r == SubnFrom_Unescaped(old, repl, line, pos + Len(old))
             IN [s |-> repl \o r.s, n |-> r.n + 1]
    ELSE LET r == SubnFrom_Unescaped(old, repl, line, pos + 1)
         IN [s |-> <<line[pos]>> \o r.s, n |-> r.n]

\* re.subn(re.escape(old), repl, line) with repl already expanded: every
\* non-overlapping occurrence of old from the left; the empty pattern
\* matches before every character and at the end
RECURSIVE SubnFrom(_, _, _, _)
SubnFrom(old, repl, line, pos) ==
    IF pos > Len(line)
    THEN (IF old = <<>> THEN [s |-> repl, n |-> 1] ELSE [s |-> <<>>, n |-> 0])
    ELSE IF old = <<>>
        THEN LET r == SubnFrom(old, repl, line, pos + 1)
             IN [s |-> repl \o <<line[pos]>> \o r.s, n |-> r.n + 1]
    ELSE IF LitAt(old, line, pos)
        THEN LET r == SubnFrom(old, repl, line, pos + Len(old))
             IN [s |-> repl \o r.s, n |-> r.n + 1]
    ELSE LET r == SubnFrom(old, repl, line, pos + 1)
         IN [s |-> <<line[pos]>> \o r.s, n |-> r.n]

RECURSIVE ReplaceLoop(_, _, _, _)
ReplaceLoop(lines, i, old, repl) ==
    IF i > Len(lines) THEN [new_lines |-> <<>>, total_replacements |-> 0]
    ELSE LET r == SubnFrom(old, repl, lines[i], 1)
             rest == ReplaceLoop(lines, i + 1, old, repl)
         IN [new_lines |-> <<r.s>> \o rest.new_lines,
             total_replacements |-> r.n + rest.total_replacements]

replace_string_content(bytes, old_string, new_string) ==
    LET lines == ReadLines(bytes)
        t == ExpandTemplate(new_string, 1)
        r == ReplaceLoop(lines, 1, old_string, t.val)
    IN IF lines # <<>> /\ ~t.ok
       THEN Result(Raised, <<>>, FALSE, bytes)      \* re.error from re.subn
       ELSE IF r.total_replacements > 0
       THEN Result(RetInt(r.total_replacements), r.new_lines, TRUE,
                   WriteLines(r.new_lines))
       ELSE Result(RetInt(0), r.new_lines, FALSE, bytes)

----------------------------------------------------------------------------
(* Inputs                                                                  *)

Toks == {<<"s", "e", "t", " ", "x">>, <<" ">>, <<"#">>, <<"1">>}
PatChars == {"1", "#", "^"}
ContentChars == {"1", "\n"}
VarChars == {"x"}
OldChars == {"x", "."}
NewChars == {"x", "\\"}

FilesOf(toks, maxLines, maxToks) ==
    LET bodies == {Flatten(ts) : ts \in Strs(toks, maxToks)}
        terminated ==
            {Flatten([i \in 1..Len(ls) |-> Append(ls[i], "\n")]) :
                ls \in Strs(bodies, maxLines)}
    IN terminated \cup {SubSeq(f, 1, Len(f) - 1) : f \in terminated \ {<<>>}}

\* short files of long lines and longer files of short lines
Files ==
    FilesOf(Toks, MaxLines, MaxToks) \cup FilesOf(Toks, MaxLines + 1, MaxToks - 1)

Ops == {"inject_line", "replace_variable_value", "comment_out_block",
        "replace_string_content"}

ArgsOf(o) ==
    CASE o = "inject_line" ->
            [content : Strs(ContentChars, MaxStrLen),
             after_pattern : Strs(PatChars, MaxPatLen)]
      [] o = "replace_variable_value" ->
            [var_name : Strs(VarChars, MaxStrLen),
             new_value : Strs(ContentChars, MaxStrLen)]
      [] o = "comment_out_block" ->
            [start_pattern : Strs(PatChars, MaxPatLen),
             end_pattern : Strs(PatChars, MaxPatLen)]
      [] o = "replace_string_content" ->
            [old_string : Strs(OldChars, MaxStrLen),
             new_string : Strs(NewChars, MaxStrLen)]

----------------------------------------------------------------------------
(* One call on the target file                                             *)

BatchIdle ==
    /\ batch = [kind |-> "none"]
    /\ tree = <<>>
    /\ pc = "idle"
    /\ ri = 0
    /\ fi = 0
    /\ rootCount = 0
    /\ total = 0
    /\ log = <<>>

InitFile(files) ==
    /\ op \in Ops
    /\ args \in ArgsOf(op)
    /\ disk \in files
    /\ bak = NoFile
    /\ hist = <<>>

Init == InitFile(Files) /\ BatchIdle

\* the record of one call: the file before and after, new_lines, whether
\* _write_lines ran, the value returned and the backup after the call
Call(name, r, b) ==
    [name |-> name, pre |-> disk, mem |-> r.mem, wrote |-> r.wrote,
     ret |-> r.ret, post |-> r.disk, bak |-> b]

NumBackups == Cardinality({k \in 1..Len(hist) : hist[k].name = "backup_file"})

Finish(name, r) ==
    /\ Len(hist) - NumBackups < MaxCalls
    /\ disk' = r.disk
    /\ hist' = Append(hist, Call(name, r, bak))
    /\ UNCHANGED <<op, args, bak>>
    /\ UNCHANGED batchVars

InjectLine ==
    /\ op = "inject_line"
    /\ Finish(op, inject_line(disk, args.content, args.after_pattern))

ReplaceVariableValue ==
    /\ op = "replace_variable_value"
    /\ Finish(op, replace_variable_value(disk, args.var_name, args.new_value))

CommentOutBlock ==
    /\ op = "comment_out_block"
    /\ Finish(op, comment_out_block(disk, args.start_pattern, args.end_pattern))

ReplaceStringContent ==
    /\ op = "replace_string_content"
    /\ Finish(op, replace_string_content(disk, args.old_string, args.new_string))

\* an existing backup is left as it is
backup_file_KeepFirst(target, backup) == IF backup = NoFile THEN target ELSE backup

\* shutil.copy2(target_file, backup_path): the contents of the backup afterwards
backup_file(target, backup) == target

BackupFile ==
    /\ NumBackups < MaxBackups
    /\ bak' = backup_file(disk, bak)
    /\ hist' = Append(hist,
                 Call("backup_file", Result(RetNone, <<>>, FALSE, disk), bak'))
    /\ UNCHANGED <<op, args, disk>>
    /\ UNCHANGED batchVars

Next ==
    \/ InjectLine
    \/ ReplaceVariableValue
    \/ CommentOutBlock
    \/ ReplaceStringContent

Spec == Init /\ [][Next]_vars

\* backup_file calls and transformation calls in any order
InitBackup == InitFile(FilesOf(Toks, BackupMaxLines, MaxToks)) /\ BatchIdle

NextBackup ==
    \/ BackupFile
    \/ InjectLine
    \/ ReplaceVariableValue
    \/ CommentOutBlock
    \/ ReplaceStringContent

SpecBackup == InitBackup /\ [][NextBackup]_vars

----------------------------------------------------------------------------
(* Batch drivers: batch_replace and batch_comment_out_block                *)

BatchToks == {<<"x", "1">>}

TclSuffix == <<".", "t", "c", "l">>

\* target_filename of a batch run: a bare name or a name with the suffix
TargetNames == {<<"m">>, <<"m">> \o TclSuffix}

\* an entry of a directory that is no regular file
NotAFile == <<"<dir>">>

\* the files of a batch run hold text: the last line with or without its
\* terminator
BatchFiles ==
    {f \in FilesOf(BatchToks, BatchMaxLines, BatchMaxToks) : Strip(f) # <<>>}

\* a directory the recursive search found, by entry name: the contents of a
\* regular file, NotAFile, or NoFile where there is no entry of that name.
\* The entry named target is there, whatever it is.
Entries(target) ==
    {d \in [TargetNames -> BatchFiles \cup {NotAFile, NoFile}] :
        /\ d[target] # NoFile
        /\ \A n \in TargetNames \ {target} :
            d[n] \in {NoFile, <<"x", "1", "\n">>}}

Trees(target) == Strs(Strs(Entries(target), MaxMatches), MaxRoots)

BatchArgs ==
    [kind : {"batch_replace"},
     target_filename : TargetNames,
     old_str : Strs(OldChars, BatchStrLen),
     new_str : Strs(NewChars, BatchStrLen)]
    \cup
    [kind : {"batch_comment_out_block"},
     target_filename : TargetNames,
     start_pattern : Strs(PatChars, BatchStrLen),
     end_pattern : Strs(PatChars, BatchStrLen)]

FileIdle ==
    /\ op = "none"
    /\ args = <<>>
    /\ disk = <<>>
    /\ bak = NoFile
    /\ hist = <<>>

InitBatch ==
    /\ FileIdle
    /\ batch \in BatchArgs
    /\ tree \in Trees(batch.target_filename)
    /\ pc = "root"
    /\ ri = 1
    /\ fi = 0
    /\ rootCount = 0
    /\ total = 0
    /\ log = <<>>

\* verify_tcl_file: '.tcl' is appended to a filename that lacks it, the
\* file of that name in the model directory is the target; FileNotFoundError
\* when it is no regular file
verify_tcl_file(dir, filename) ==
    LET name == IF EndsWith(filename, TclSuffix)
                THEN filename ELSE filename \o TclSuffix
    IN [name |-> name, found |-> dir[name] \notin {NoFile, NotAFile}]

\* tclMaster(model_path=model_dir) and the transformation of this batch on
\* the file verify_tcl_file resolves in that directory
PerFile(dir) ==
    LET target_file == verify_tcl_file(dir, batch.target_filename)
    IN IF ~target_file.found
       THEN Result(Raised, <<>>, FALSE, dir[target_file.name])
       ELSE IF batch.kind = "batch_replace"
           THEN replace_string_content(dir[target_file.name],
                                       batch.old_str, batch.new_str)
           ELSE comment_out_block(dir[target_file.name],
                                  batch.start_pattern, batch.end_pattern)

\* the exception of a per-file call leaves the loop
Outcome_Propagate(r) ==
    IF r.ret.tag = "raise" THEN [pc |-> "aborted", count |-> 0]
    ELSE [pc |-> "file", count |-> r.ret.n]

\* try / except Exception around the per-file call: where the loop goes on
\* and what is added to the count of the root
Outcome(r) ==
    IF r.ret.tag = "raise" THEN [pc |-> "file", count |-> 0]
    ELSE IF r.ret.n > 0 THEN [pc |-> "file", count |-> r.ret.n]
    ELSE [pc |-> "file", count |-> 0]

\* for current_root in search_targets, up to the inner loop
NextRoot ==
    /\ pc = "root"
    /\ ri <= Len(tree)
    /\ IF tree[ri] = <<>>
       THEN /\ ri' = ri + 1                 \* no files found: continue
            /\ UNCHANGED <<pc, fi, rootCount>>
       ELSE /\ pc' = "file"
            /\ fi' = 1
            /\ rootCount' = 0
            /\ UNCHANGED ri
    /\ UNCHANGED <<batch, tree, total, log>>
    /\ UNCHANGED fileVars

\* one pass of for file_path in files_found
ProcessFile ==
    /\ pc = "file"
    /\ fi <= Len(tree[ri])
    /\ LET r == PerFile(tree[ri][fi])
           o == Outcome(r)
           written == verify_tcl_file(tree[ri][fi], batch.target_filename).name
       IN /\ tree' = [tree EXCEPT ![ri][fi][written] = r.disk]
          /\ log' = Append(log, [root |-> ri, file |-> fi, ret |-> r.ret])
          /\ rootCount' = rootCount + o.count
          /\ pc' = o.pc
          /\ fi' = fi + 1
    /\ UNCHANGED <<batch, ri, total>>
    /\ UNCHANGED fileVars

\* after the inner loop: the root's count goes into the global total
FinishRoot ==
    /\ pc = "file"
    /\ fi > Len(tree[ri])
    /\ total' = total + rootCount
    /\ ri' = ri + 1
    /\ pc' = "root"
    /\ UNCHANGED <<batch, tree, fi, rootCount, log>>
    /\ UNCHANGED fileVars

\* after the outer loop: the global summary is printed
GlobalComplete ==
    /\ pc = "root"
    /\ ri > Len(tree)
    /\ pc' = "done"
    /\ UNCHANGED <<batch, tree, ri, fi, rootCount, total, log>>
    /\ UNCHANGED fileVars

NextBatch ==
    \/ NextRoot
    \/ ProcessFile
    \/ FinishRoot
    \/ GlobalComplete

SpecBatch == InitBatch /\ [][NextBatch]_vars

----------------------------------------------------------------------------
(* Properties of the single-file transformations                           *)

Occurs(old, line) == \E pos \in 1..(Len(line) + 1) : LitAt(old, line, pos)

RECURSIVE SumTo(_, _)
SumTo(f, n) == IF n = 0 THEN 0 ELSE f[n] + SumTo(f, n - 1)

\* no line of the file matches the search pattern of the operation
NoLineMatches(bytes) ==
    LET lines == ReadLines(bytes)
    IN \A i \in 1..Len(lines) :
        CASE op = "inject_line" -> ~Search(args.after_pattern, lines[i])
          [] op = "replace_variable_value" ->
                ~VarPatternMatch(args.var_name, lines[i])
          [] op = "comment_out_block" -> ~Search(args.start_pattern, lines[i])
          [] op = "replace_string_content" -> ~Occurs(args.old_string, lines[i])

NoChange ==
    IF op \in {"inject_line", "replace_variable_value"}
    THEN RetBool(FALSE) ELSE RetInt(0)

\* C1: a call on a file none of whose lines matches the search pattern
\* writes nothing, leaves the file as it was and returns the no-change value
\* (False for inject_line and replace_variable_value, 0 for the other two).
C1_NoMatchNoChange ==
    \A k \in 1..Len(hist) :
        NoLineMatches(hist[k].pre) =>
            /\ ~hist[k].wrote
            /\ hist[k].post = hist[k].pre
            /\ hist[k].ret = NoChange

\* C2 as stated: a second comment_out_block with the same patterns returns 0
\* and leaves the file unchanged, whatever the patterns.
C2_SecondRunIsNoop ==
    (op = "comment_out_block" /\ Len(hist) = 2) =>
        /\ hist[2].ret = RetInt(0)
        /\ hist[2].post = hist[2].pre

\* every line the first run prefixed and that matched end_pattern still
\* matches it with the prefix in place
EndSurvivesPrefix ==
    LET L0 == ReadLines(hist[1].pre)
        L1 == ReadLines(hist[1].post)
    IN /\ Len(L1) = Len(L0)
       /\ \A i \in 1..Len(L0) :
            (L1[i] # L0[i] /\ Search(args.end_pattern, L0[i])) =>
                Search(args.end_pattern, L1[i])

\* C2 amended: when every line the first run prefixed and that matched
\* end_pattern still matches it behind the '# ' prefix, the second run with
\* the same patterns returns 0, writes nothing and leaves the file unchanged.
C2_NoDoubleComment ==
    (op = "comment_out_block" /\ Len(hist) = 2 /\ EndSurvivesPrefix) =>
        /\ hist[2].ret = RetInt(0)
        /\ ~hist[2].wrote
        /\ hist[2].post = hist[2].pre

\* a second run after a first run that prefixed two lines or more, one of
\* them a line that closes the block
C2_Witness ==
    /\ op = "comment_out_block"
    /\ Len(hist) = 2
    /\ EndSurvivesPrefix
    /\ hist[1].ret.n >= 2
    /\ LET L0 == ReadLines(hist[1].pre)
           L1 == ReadLines(hist[1].post)
       IN \E i \in 1..Len(L0) :
            L1[i] # L0[i] /\ Search(args.end_pattern, L0[i])

\* C3: when the first replace_variable_value returns True, a second call with
\* the same var_name and new_value returns True and leaves the file as the
\* first call left it.
C3_Idempotent ==
    (op = "replace_variable_value" /\ Len(hist) = 2
        /\ hist[1].ret = RetBool(TRUE)) =>
        /\ hist[2].ret = RetBool(TRUE)
        /\ hist[2].post = hist[1].post

OldGone ==
    /\ hist[1].ret.tag = "int"
    /\ LET L1 == ReadLines(hist[1].post)
       IN \A i \in 1..Len(L1) : ~Occurs(args.old_string, L1[i])

C6_WrittenRereadsAsMemory ==
    \A k \in 1..Len(hist) :
        hist[k].wrote => ReadLines(hist[k].post) = hist[k].mem

\* the first character of the line that is no blank is '#'
FirstNonBlankIsHash(line) ==
    \E p \in 1..Len(line) :
        line[p] = "#" /\ \A q \in 1..(p - 1) : IsSpace(line[q])

\* line i is inside a block: some line j <= i matches start_pattern and no
\* line from j up to the one before i matches end_pattern
InsideBlock(L, i) ==
    \E j \in 1..i :
        /\ Search(args.start_pattern, L[j])
        /\ \A k \in j..(i - 1) : ~Search(args.end_pattern, L[k])

Prefixed(L, i) == InsideBlock(L, i) /\ ~FirstNonBlankIsHash(L[i])

\* C7: comment_out_block follows the one-boolean block state machine: the
\* inside lines that are no comment yet get the '# ' prefix, every other
\* line stays as it is, the block closes after an inside line matching
\* end_pattern, and the count returned is the number of prefixed lines.
C7_BlockStateMachine ==
    \A c \in 1..Len(hist) :
        hist[c].name = "comment_out_block" =>
            LET L == ReadLines(hist[c].pre)
                R == ReadLines(hist[c].post)
            IN /\ Len(R) = Len(L)
               /\ \A i \in 1..Len(L) :
                    R[i] = IF Prefixed(L, i) THEN <<"#", " ">> \o L[i] ELSE L[i]
               /\ hist[c].ret =
                    RetInt(Cardinality({i \in 1..Len(L) : Prefixed(L, i)}))

\* a run in which a block opens, holds a line that is a comment already and
\* that closes it, and is followed by a line left outside
C7_Witness ==
    \E c \in 1..Len(hist) :
        /\ hist[c].name = "comment_out_block"
        /\ hist[c].ret.n >= 1
        /\ LET L == ReadLines(hist[c].pre)
           IN \E i, j \in 1..Len(L) :
                /\ i < j
                /\ InsideBlock(L, i)
                /\ FirstNonBlankIsHash(L[i])
                /\ Search(args.end_pattern, L[i])
                /\ ~Search(args.start_pattern, L[i])
                /\ ~InsideBlock(L, j)
                /\ ~FirstNonBlankIsHash(L[j])

\* C8: inject_line inserts once, directly after the first line matching
\* after_pattern: the file then reads as the lines up to that one, the
\* content (newline appended if missing), the remaining lines; True is
\* returned. Without a match the file is untouched and False is returned.
C8_InjectAfterFirstMatch ==
    \A c \in 1..Len(hist) :
        hist[c].name = "inject_line" =>
            LET L == ReadLines(hist[c].pre)
                text == IF EndsWith(args.content, <<"\n">>)
                        THEN args.content ELSE Append(args.content, "\n")
                M == {i \in 1..Len(L) : Search(args.after_pattern, L[i])}
            IN IF M = {}
               THEN hist[c].ret = RetBool(FALSE) /\ hist[c].post = hist[c].pre
               ELSE LET i == CHOOSE m \in M : \A n \in M : m <= n
                    IN /\ hist[c].ret = RetBool(TRUE)
                       /\ ReadLines(hist[c].post) =
                            SubSeq(L, 1, i) \o ReadLines(text)
                                \o SubSeq(L, i + 1, Len(L))

\* the line with every occurrence of old, left to right, replaced by the
\* characters of new as they are
RECURSIVE LiteralReplace(_, _, _, _)
LiteralReplace(old, new, line, pos) ==
    IF pos > Len(line) THEN (IF old = <<>> THEN new ELSE <<>>)
    ELSE IF old = <<>>
        THEN new \o <<line[pos]>> \o LiteralReplace(old, new, line, pos + 1)
    ELSE IF LitAt(old, line, pos)
        THEN new \o LiteralReplace(old, new, line, pos + Len(old))
    ELSE <<line[pos]>> \o LiteralReplace(old, new, line, pos + 1)

RECURSIVE CountOccurrences(_, _, _)
CountOccurrences(old, line, pos) ==
    IF pos > Len(line) THEN (IF old = <<>> THEN 1 ELSE 0)
    ELSE IF old = <<>> THEN 1 + CountOccurrences(old, line, pos + 1)
    ELSE IF LitAt(old, line, pos)
        THEN 1 + CountOccurrences(old, line, pos + Len(old))
    ELSE CountOccurrences(old, line, pos + 1)

\* C9: replace_string_content replaces literally: every line of the result
\* is the original line with each occurrence of old_string replaced by
\* exactly the characters of new_string, and the count returned is the
\* number of occurrences over all lines.
C9_LiteralReplacement ==
    \A c \in 1..Len(hist) :
        hist[c].name = "replace_string_content" =>
            LET L == ReadLines(hist[c].pre)
                n == SumTo([i \in 1..Len(L) |->
                        CountOccurrences(args.old_string, L[i], 1)], Len(L))
            IN /\ hist[c].ret = RetInt(n)
               /\ hist[c].post =
                    Flatten([i \in 1..Len(L) |->
                        LiteralReplace(args.old_string, args.new_string, L[i], 1)])

----------------------------------------------------------------------------
(* Properties of the backup                                                *)

\* the contents of the target file before its first modification
Original == IF hist = <<>> THEN disk ELSE hist[1].pre

Backups == {k \in 1..Len(hist) : hist[k].name = "backup_file"}

\* C10 as stated: the backup, whenever it exists, holds the contents the
\* target file had before its first modification.
C10_BackupIsOriginal == bak # NoFile => bak = Original

\* C10 amended: the backup exists once backup_file has been called and then
\* holds the contents the target file had at the most recent backup_file
\* call; no transformation writes, restores or removes it.
C10_BackupIsLastSnapshot ==
    /\ IF Backups = {} THEN bak = NoFile
       ELSE bak = hist[CHOOSE k \in Backups : \A j \in Backups : j <= k].pre
    /\ \A k \in 1..Len(hist) :
        /\ hist[k].name = "backup_file" => hist[k].post = hist[k].pre
        /\ hist[k].name # "backup_file" =>
            hist[k].bak = IF k = 1 THEN NoFile ELSE hist[k - 1].bak

\* a backup, a transformation that changes the file, a second backup, a
\* transformation that changes the file again
C10_Witness ==
    /\ Len(hist) = 4
    /\ hist[1].name = "backup_file"
    /\ hist[2].name # "backup_file" /\ hist[2].post # hist[2].pre
    /\ hist[3].name = "backup_file"
    /\ hist[4].name # "backup_file" /\ hist[4].post # hist[4].pre
    /\ bak = hist[2].post
    /\ bak # Original
    /\ bak # disk

----------------------------------------------------------------------------
(* Properties of the batch drivers                                         *)

\* the matched entries, root by root, in the order of the search
RECURSIVE Matched(_)
Matched(r) ==
    IF r = 0 THEN <<>>
    ELSE Matched(r - 1) \o [f \in 1..Len(tree[r]) |-> <<r, f>>]

\* the sum of the counts the per-file calls returned
RECURSIVE Returned(_)
Returned(k) ==
    IF k = 0 THEN 0
    ELSE Returned(k - 1) + (IF log[k].ret.tag = "int" THEN log[k].ret.n ELSE 0)

\* the conditions under which the steps of the batch loop can be taken
CanNextRoot == pc = "root" /\ ri \in 1..Len(tree)
CanGlobalComplete == pc = "root" /\ ri > Len(tree)
CanProcessFile == pc = "file" /\ ri \in 1..Len(tree) /\ fi \in 1..Len(tree[ri])
CanFinishRoot == pc = "file" /\ ri \in 1..Len(tree) /\ fi > Len(tree[ri])

\* C5: a batch run is never stopped by a failing file or by a root without
\* matches: it goes on until the global summary, by then the per-file call
\* has been made on every matched entry of every root, once and in order,
\* and the global total is the sum of the counts the calls returned.
C5_BatchNeverAborts ==
    /\ pc \in {"root", "file", "done"}
    /\ pc = "root" => CanNextRoot \/ CanGlobalComplete
    /\ pc = "file" => CanProcessFile \/ CanFinishRoot
    /\ pc = "done" =>
        /\ [k \in 1..Len(log) |-> <<log[k].root, log[k].file>>] = Matched(Len(tree))
        /\ total = Returned(Len(log))

\* a finished run over two roots in which a per-file call raised and the
\* calls after it, in the same root and in the next, returned counts
C5_Witness ==
    /\ pc = "done"
    /\ Len(tree) = 2
    /\ Len(log) = 3
    /\ log[1].ret.tag = "raise"
    /\ log[2].root = 1 /\ log[2].ret.tag = "int" /\ log[2].ret.n > 0
    /\ log[3].root = 2 /\ log[3].ret.tag = "int" /\ log[3].ret.n > 0
    /\ total = log[2].ret.n + log[3].ret.n

\* the transformation of the batch applied to one entry of a directory: an
\* entry that is no regular file makes the call raise
OnEntry(entry) ==
    IF entry = NotAFile THEN Result(Raised, <<>>, FALSE, entry)
    ELSE IF batch.kind = "batch_replace"
        THEN replace_string_content(entry, batch.old_str, batch.new_str)
        ELSE comment_out_block(entry, batch.start_pattern, batch.end_pattern)

\* one step of the batch: the per-file call works on the matched entry, the
\* entry named target_filename of the current directory, and on nothing else
MatchedEntryStep ==
    IF CanProcessFile
    THEN LET r == OnEntry(tree[ri][fi][batch.target_filename])
         IN /\ tree' =
                [tree EXCEPT ![ri][fi][batch.target_filename] = r.disk]
            /\ log' = Append(log, [root |-> ri, file |-> fi, ret |-> r.ret])
    ELSE tree' = tree /\ log' = log

\* C11: in a batch run the per-file call reads and possibly rewrites exactly
\* the entry the recursive search matched, the one named target_filename
\* (with or without the '.tcl' suffix), and no entry the search did not
\* match is ever modified.
C11_TransformsMatchedEntry == [][MatchedEntryStep]_vars

\* C11 for a target_filename that carries the '.tcl' suffix
C11_SuffixedTarget ==
    [][EndsWith(batch.target_filename, TclSuffix) => MatchedEntryStep]_vars

\* a finished run with a bare target_filename in which the '.tcl' file next
\* to a matched entry was rewritten
C11_SiblingRewritten ==
    /\ pc = "done"
    /\ ~EndsWith(batch.target_filename, TclSuffix)
    /\ \E k \in 1..Len(log) : log[k].ret.tag = "int" /\ log[k].ret.n > 0

====
